---- MODULE Spec2Model ----
(***************************************************************************)
(* Model of src/sources/metadatasourcetaglib.cpp: the SafelyWritableFile   *)
(* transaction (constructor, fileName, isReady, commit, cancel,            *)
(* destructor), the TagSaver variants, and                                 *)
(* MetadataSourceTagLib::exportTrackMetadata and                           *)
(* importTrackMetadataAndCoverImage that drive them.  Every filesystem     *)
(* call of the code is one step of the model and may fail; the three file  *)
(* names involved are the original, the temporary copy (original +         *)
(* "_temp") and the backup (original + "_orig").  A file's tags are the    *)
(* set of tag containers it holds.                                         *)
(***************************************************************************)
EXTENDS Integers, FiniteSets, Sequences, TLC

VARIABLES
    platform,           \* which branch of #ifdef __WINDOWS__ was compiled
    fileType,           \* m_fileType
    useTemporaryFile,   \* the constructor's useTemporaryFile argument
    writable,           \* permission bit seen by QFileInfo::isWritable
    fs,                 \* file name -> content of the file stored there
    m_origFileName,     \* SafelyWritableFile::m_origFileName
    m_tempFileName,     \* SafelyWritableFile::m_tempFileName
    pc,                 \* position of the exportTrackMetadata call
    oldFile,            \* file name held by the local QFile oldFile in commit
    i,                  \* retry counter of the ReplaceFileW loop
    attempts,           \* number of ReplaceFileW calls made so far
    tagSaver,           \* file the TagSaver has open, or NullName
    modifiedTags,       \* TagSaver::hasModifiedTags()
    saved,              \* outcome of saveModifiedTags()
    commitResult,       \* return value of commit()
    exportResult,       \* ExportResult handed to afterExport
    syncValid,          \* sourceSynchronizedAt.isValid() in afterExport
    injected,           \* filesystem steps that have failed so far
    cancelCalls,        \* number of cancel() invocations so far
    containers,         \* tag containers present in the file m_fileName
    tagCovers,          \* the containers among them that embed a cover image
    pictureList,        \* the FLAC picture list holds a usable picture
    audioPropsOk,       \* readAudioPropertiesFromFile() succeeds on the file
    wantMetadata,       \* pTrackMetadata != nullptr
    wantCover,          \* pCoverImage != nullptr
    importResult,       \* ImportResult handed to afterImport
    importedFrom,       \* the container the import read, or "none"
    coverFrom,          \* where *pCoverImage was taken from, or "none"
    pictureListRead,    \* importCoverImageFromPictureList was called
    writtenTags,        \* containers the TagSaver exported the metadata into
    savedContainers,    \* tag containers of the file that save() wrote
    stdBitCeil,         \* roundUpToPowerOf2 was compiled with std::bit_ceil
    v,                  \* the argument of roundUpToPowerOf2
    power               \* the local of roundUpToPowerOf2, then its result

vars == <<platform, fileType, useTemporaryFile, writable, fs, m_origFileName,
          m_tempFileName, pc, oldFile, i, attempts, tagSaver, modifiedTags,
          saved, commitResult, exportResult, syncValid, injected, cancelCalls,
          containers, tagCovers, pictureList, audioPropsOk, wantMetadata,
          wantCover, importResult, importedFrom, coverFrom, pictureListRead,
          writtenTags, savedContainers, stdBitCeil, v, power>>

\* Configuration that never changes during a call.
envVars == <<platform, fileType, useTemporaryFile, writable>>
\* The fields of the SafelyWritableFile object.
txVars == <<m_origFileName, m_tempFileName>>
\* The state of the TagSaver.
saverVars == <<tagSaver, modifiedTags, saved>>
\* The locals of commit().
commitVars == <<oldFile, i, attempts, commitResult>>
\* What afterExport produces.
resultVars == <<exportResult, syncValid>>
\* The build, the argument and the local of roundUpToPowerOf2.
mathVars == <<stdBitCeil, v, power>>
\* What the TagSaver exported and what its save() left in the file.
tagVars == <<writtenTags, savedContainers>>
\* The arguments, the file's tags and the outcome of an import call.
importVars == <<containers, tagCovers, pictureList, audioPropsOk, wantMetadata,
                wantCover, importResult, importedFrom, coverFrom,
                pictureListRead>>

----------------------------------------------------------------------------
(* Constants of the program *)

kExportTrackMetadataIntoTemporaryFile == TRUE

kWindowsSharingViolationMaxRetries == 5

\* Width in bits of unsigned int in the model of roundUpToPowerOf2.
UIntBits == 5

\* Number of explicit cancel() calls a client makes before the destructor.
MaxCancelCalls == 2

\* A null QString.
NullName == "null"

\* m_fileName, m_fileName + kSafelyWritableTempFileSuffix,
\* m_fileName + kSafelyWritableOrigFileSuffix
OrigPath == "orig"
TempPath == "temp"
BackupPath == "backup"

FileNames == {OrigPath, TempPath, BackupPath}

\* What a file name resolves to: nothing, the original audio file, the
\* file with the exported tags, an incomplete (truncated or half-written)
\* file, or a file that some other program left there.
Contents == {"none", "old", "new", "partial", "foreign"}

FileTypes == {"MP3", "MP4", "FLAC", "OGG", "OPUS", "WV", "WAV", "AIFF"}

UnknownType == "UNKNOWN"

Platforms == {"posix", "windows"}

\* Results of ReplaceFileW / GetLastError as distinguished by commit().
ReplaceOutcomes == {"SUCCESS",
                    "ERROR_UNABLE_TO_MOVE_REPLACEMENT",
                    "ERROR_UNABLE_TO_MOVE_REPLACEMENT_2",
                    "ERROR_UNABLE_TO_REMOVE_REPLACED",
                    "ERROR_SHARING_VIOLATION",
                    "ERROR_ACCESS_DENIED",
                    "ERROR_OTHER"}

----------------------------------------------------------------------------
(* Filesystem primitives *)

exists(name) == fs[name] # "none"

\* QFile::rename does not overwrite: it can only succeed when the source
\* exists and the target does not.
CanRename(from, to) == exists(from) /\ ~exists(to)

Renamed(from, to) == [fs EXCEPT ![to] = fs[from], ![from] = "none"]

Removed(name) == [fs EXCEPT ![name] = "none"]

\* A writability test that only looks whether the file exists.
isWritable_IgnoresPermission(name) == exists(name)

\* QFileInfo(origFileName).isWritable()
isWritable(name) == exists(name) /\ writable

----------------------------------------------------------------------------
(* SafelyWritableFile *)

\* A fileName() that always hands out the original path.
fileName_IgnoresTemp == m_origFileName

\* SafelyWritableFile::fileName()
fileName == IF m_tempFileName = NullName THEN m_origFileName ELSE m_tempFileName

\* SafelyWritableFile::isReady()
isReady == fileName # NullName

\* A constructor that aborts on a size mismatch without the cleanup.
SafelyWritableFile_NoCleanup(origFileName, useTemp, copyOutcome, removeOk) ==
    IF ~isWritable(origFileName)
    THEN /\ UNCHANGED <<fs, txVars>>
         /\ injected' = injected \cup {"notWritable"}
    ELSE IF useTemp
    THEN IF exists(TempPath) \/ copyOutcome = "fail"
         THEN /\ UNCHANGED <<fs, txVars>>
              /\ injected' = injected \cup {"copy"}
         ELSE IF copyOutcome = "short"
         THEN /\ fs' = [fs EXCEPT ![TempPath] = "partial"]
              /\ injected' = injected \cup {"size"}
              /\ UNCHANGED txVars
         ELSE /\ fs' = [fs EXCEPT ![TempPath] = fs[origFileName]]
              /\ m_origFileName' = origFileName
              /\ m_tempFileName' = TempPath
              /\ UNCHANGED injected
    ELSE /\ m_origFileName' = origFileName
         /\ UNCHANGED <<fs, m_tempFileName, injected>>

\* SafelyWritableFile::SafelyWritableFile(origFileName, useTemporaryFile).
\* copyOutcome is what QFile::copy does ("fail", "ok", or "short": it reports
\* success but the copy has another size); removeOk is whether the cleanup
\* remove of the mismatching copy succeeds.  QFile::copy never overwrites an
\* existing file.
SafelyWritableFile(origFileName, useTemp, copyOutcome, removeOk) ==
    IF ~isWritable(origFileName)
    THEN \* Abort constructor
         /\ UNCHANGED <<fs, txVars>>
         /\ injected' = injected \cup {"notWritable"}
    ELSE IF useTemp
    THEN IF exists(TempPath) \/ copyOutcome = "fail"
         THEN \* Abort constructor
              /\ UNCHANGED <<fs, txVars>>
              /\ injected' = injected \cup {"copy"}
         ELSE IF copyOutcome = "short"
         THEN \* size mismatch: cleanup, abort constructor
              /\ fs' = [fs EXCEPT ![TempPath] =
                            IF removeOk THEN "none" ELSE "partial"]
              /\ injected' = injected \cup {"size"} \cup
                            (IF removeOk THEN {} ELSE {"removePartial"})
              /\ UNCHANGED txVars
         ELSE \* finish initialization
              /\ fs' = [fs EXCEPT ![TempPath] = fs[origFileName]]
              /\ m_origFileName' = origFileName
              /\ m_tempFileName' = TempPath
              /\ UNCHANGED injected
    ELSE \* Directly write into original file
         /\ m_origFileName' = origFileName
         /\ UNCHANGED <<fs, m_tempFileName, injected>>

\* A cancel() that forgets to reset the file names.
cancel_KeepsNames(removeOk) ==
    IF m_tempFileName = NullName
    THEN UNCHANGED <<fs, txVars, injected>>
    ELSE /\ fs' = IF exists(m_tempFileName) /\ removeOk
                  THEN Removed(m_tempFileName) ELSE fs
         /\ injected' = IF exists(m_tempFileName) /\ ~removeOk
                        THEN injected \cup {"removeTemp"} ELSE injected
         /\ UNCHANGED txVars

\* A cancel() that resets the file names but leaves the temporary file.
cancel_SkipsRemove(removeOk) ==
    IF m_tempFileName = NullName
    THEN UNCHANGED <<fs, txVars, injected>>
    ELSE /\ UNCHANGED <<fs, injected>>
         /\ m_origFileName' = NullName
         /\ m_tempFileName' = NullName

\* A cancel() that removes the file under the original name.
cancel_RemovesOrig(removeOk) ==
    IF m_tempFileName = NullName
    THEN UNCHANGED <<fs, txVars, injected>>
    ELSE /\ fs' = IF exists(m_origFileName) /\ removeOk
                  THEN Removed(m_origFileName) ELSE fs
         /\ injected' = IF exists(m_origFileName) /\ ~removeOk
                        THEN injected \cup {"removeTemp"} ELSE injected
         /\ m_origFileName' = NullName
         /\ m_tempFileName' = NullName

\* A cancel() that removes whatever fileName() names, temporary or not.
cancel_RemovesFileName(removeOk) ==
    IF fileName = NullName
    THEN UNCHANGED <<fs, txVars, injected>>
    ELSE /\ fs' = IF exists(fileName) /\ removeOk
                  THEN Removed(fileName) ELSE fs
         /\ injected' = IF exists(fileName) /\ ~removeOk
                        THEN injected \cup {"removeTemp"} ELSE injected
         /\ m_origFileName' = NullName
         /\ m_tempFileName' = NullName

\* SafelyWritableFile::cancel(); removeOk is whether QFile::remove succeeds.
cancel(removeOk) ==
    IF m_tempFileName = NullName
    THEN \* nothing to do
         UNCHANGED <<fs, txVars, injected>>
    ELSE /\ fs' = IF exists(m_tempFileName) /\ removeOk
                  THEN Removed(m_tempFileName) ELSE fs
         /\ injected' = IF exists(m_tempFileName) /\ ~removeOk
                        THEN injected \cup {"removeTemp"} ELSE injected
         \* Prevent any further interaction and file access
         /\ m_origFileName' = NullName
         /\ m_tempFileName' = NullName

\* MetadataSourceTagLib::afterExport(exportResult): the timestamp is read
\* from the file under m_fileName as it is when the result is produced.
afterExport(result) ==
    /\ exportResult' = result
    /\ syncValid' = (fs'[OrigPath] # "none")

----------------------------------------------------------------------------
(* Initial states *)

\* No call of roundUpToPowerOf2 is in progress.
NoRoundUp ==
    /\ stdBitCeil = FALSE
    /\ v = 0
    /\ power = 0

\* No import call is in progress.
NoImport ==
    /\ containers = {}
    /\ tagCovers = {}
    /\ pictureList = FALSE
    /\ audioPropsOk = TRUE
    /\ wantMetadata = TRUE
    /\ wantCover = FALSE
    /\ importResult = "none"
    /\ importedFrom = "none"
    /\ coverFrom = "none"
    /\ pictureListRead = FALSE

\* The file to export into exists; stale files of an earlier, interrupted
\* run or of another program may occupy the temporary and the backup name.
InitCommon ==
    /\ platform \in Platforms
    /\ fileType \in FileTypes \cup {UnknownType}
    /\ writable \in BOOLEAN
    /\ \E t \in {"none", "foreign"}, b \in {"none", "foreign"} :
           fs = [n \in FileNames |->
                    IF n = OrigPath THEN "old"
                    ELSE IF n = TempPath THEN t ELSE b]
    /\ m_origFileName = NullName
    /\ m_tempFileName = NullName
    /\ pc = "begin"
    /\ oldFile = NullName
    /\ i = 0
    /\ attempts = 0
    /\ tagSaver = NullName
    /\ modifiedTags = FALSE
    /\ saved = "none"
    /\ commitResult = "none"
    /\ exportResult = "none"
    /\ syncValid = FALSE
    /\ injected = {}
    /\ cancelCalls = 0
    /\ writtenTags = {}
    /\ savedContainers = {}
    /\ NoRoundUp
    /\ NoImport

Init ==
    /\ InitCommon
    /\ useTemporaryFile = kExportTrackMetadataIntoTemporaryFile

----------------------------------------------------------------------------
(* The TagSaver variants *)

\* exportTrackMetadataIntoTag(pTag, trackMetadata): false for a null tag,
\* otherwise the metadata is written into the tag in memory.
exportTrackMetadataIntoTag(tagPresent) == tagPresent

\* An MP3 saver that gets or creates the ID3v2 tag in either branch.
MpegTagSaver_CreatesId3v2(c) ==
    IF "APE" \in c THEN {"APE", "ID3v2"} ELSE {"ID3v2"}

\* MpegTagSaver::exportTrackMetadata: the tags of m_modifiedTagsBitmask.
\* With an APE tag: the APE tag, and the ID3v2 tag only if it already
\* exists; without: the ID3v2 tag, created if missing.
MpegTagSaver(c) ==
    IF "APE" \in c
    THEN {"APE"} \cup
         (IF exportTrackMetadataIntoTag("ID3v2" \in c) THEN {"ID3v2"} ELSE {})
    ELSE {"ID3v2"}

\* Mp4TagSaver::exportTrackMetadata: pFile->tag()
Mp4TagSaver(c) == {"MP4"}

\* A FLAC saver that gets or creates the VorbisComment in either branch.
FlacTagSaver_AlwaysXiph(c) ==
    IF "ID3v2" \in c THEN {"ID3v2", "Xiph"} ELSE {"Xiph"}

\* FlacTagSaver::exportTrackMetadata.  With an ID3v2 tag: the ID3v2 tag, and
\* the VorbisComment only if it already exists; without: the VorbisComment,
\* created if missing.
FlacTagSaver(c) ==
    IF "ID3v2" \in c
    THEN {"ID3v2"} \cup
         (IF exportTrackMetadataIntoTag("Xiph" \in c) THEN {"Xiph"} ELSE {})
    ELSE {"Xiph"}

\* OggTagSaver::exportTrackMetadata: pFile->tag(); nothing is exported in a
\* build against TagLib 1.11.1.
OggTagSaver(c, taglib1111) == IF taglib1111 THEN {} ELSE {"Xiph"}

\* OpusTagSaver::exportTrackMetadata: pFile->tag()
OpusTagSaver(c) == {"Xiph"}

\* WavPackTagSaver::exportTrackMetadata: pFile->APETag(true)
WavPackTagSaver(c) == {"APE"}

\* exportTrackMetadataIntoRIFFTag(pTag, trackMetadata)
exportTrackMetadataIntoRIFFTag(tagPresent) == tagPresent

\* A WAV saver that writes the Info tag only.
WavTagSaver_InfoOnly(c) == {"RIFFInfo"}

\* WavTagSaver::exportTrackMetadata.  With an ID3v2 tag: the ID3v2 tag, and
\* the Info tag only if it already exists; without: the Info tag, created
\* if missing.
WavTagSaver(c) ==
    IF "ID3v2" \in c
    THEN {"ID3v2"} \cup
         (IF exportTrackMetadataIntoRIFFTag("RIFFInfo" \in c)
          THEN {"RIFFInfo"} ELSE {})
    ELSE {"RIFFInfo"}

\* An AIFF saver that writes text chunks.
AiffTagSaver_TextChunks(c) == {"TextChunks"}

\* AiffTagSaver::exportTrackMetadata: pFile->tag(), the ID3v2 tag
AiffTagSaver(c) == {"ID3v2"}

\* The switch over m_fileType in exportTrackMetadata: the containers the
\* constructed TagSaver exports into, for a file that could be opened.
MakeTagSaver(ft, c, taglib1111) ==
    CASE ft = "MP3" -> MpegTagSaver(c)
      [] ft = "MP4" -> Mp4TagSaver(c)
      [] ft = "FLAC" -> FlacTagSaver(c)
      [] ft = "OGG" -> OggTagSaver(c, taglib1111)
      [] ft = "OPUS" -> OpusTagSaver(c)
      [] ft = "WV" -> WavPackTagSaver(c)
      [] ft = "WAV" -> WavTagSaver(c)
      [] ft = "AIFF" -> AiffTagSaver(c)
      [] OTHER -> {}

----------------------------------------------------------------------------
(* exportTrackMetadata up to the commit *)

\* Construction of safelyWritableFile and the isReady() check.
Begin ==
    /\ pc = "begin"
    /\ \E copyOutcome \in {"fail", "ok", "short"}, removeOk \in BOOLEAN :
           SafelyWritableFile(OrigPath, useTemporaryFile, copyOutcome, removeOk)
    /\ IF isReady'
       THEN /\ pc' = "dispatch"
            /\ UNCHANGED resultVars
       ELSE /\ afterExport("Failed")
            /\ pc' = "teardown"
    /\ UNCHANGED <<mathVars, importVars, tagVars, envVars, saverVars, commitVars, cancelCalls>>

\* A switch whose default case reports Failed.
Dispatch_DefaultFailed ==
    /\ pc = "dispatch"
    /\ UNCHANGED fs
    /\ IF fileType \in FileTypes
       THEN /\ tagSaver' = fileName
            /\ \E isOpen \in BOOLEAN, taglib1111 \in BOOLEAN :
                   writtenTags' = IF isOpen
                                  THEN MakeTagSaver(fileType, containers,
                                                    taglib1111)
                                  ELSE {}
            /\ modifiedTags' = (writtenTags' # {})
            /\ pc' = "save"
            /\ UNCHANGED <<saved, resultVars>>
       ELSE /\ afterExport("Failed")
            /\ pc' = "teardown"
            /\ UNCHANGED <<saverVars, writtenTags>>
    /\ UNCHANGED <<mathVars, importVars, savedContainers, envVars, txVars, commitVars,
                   injected, cancelCalls>>

\* The switch over m_fileType: a TagSaver is constructed on
\* safelyWritableFile.fileName(); its constructor opens the file and exports
\* the metadata into the tags in memory, if the file could be opened.
Dispatch ==
    /\ pc = "dispatch"
    /\ UNCHANGED fs
    /\ IF fileType \in FileTypes
       THEN /\ tagSaver' = fileName
            /\ \E isOpen \in BOOLEAN, taglib1111 \in BOOLEAN :
                   writtenTags' = IF isOpen
                                  THEN MakeTagSaver(fileType, containers,
                                                    taglib1111)
                                  ELSE {}
            /\ modifiedTags' = (writtenTags' # {})
            /\ pc' = "save"
            /\ UNCHANGED <<saved, resultVars>>
       ELSE /\ afterExport("Unsupported")
            /\ pc' = "teardown"
            /\ UNCHANGED <<saverVars, writtenTags>>
    /\ UNCHANGED <<mathVars, importVars, savedContainers, envVars, txVars, commitVars,
                   injected, cancelCalls>>

\* hasModifiedTags() and saveModifiedTags().  Saving writes into the file the
\* TagSaver has open; a failed save may leave that file half-written.  The
\* saved file holds the exported tags; MPEG::File::save(bitmask) keeps or
\* strips the tags that are not in the bitmask, the other savers keep them.
SaveTags ==
    /\ pc = "save"
    /\ IF modifiedTags
       THEN \E ok \in BOOLEAN, damaged \in BOOLEAN, strip \in BOOLEAN :
              IF ok
              THEN /\ fs' = [fs EXCEPT ![tagSaver] = "new"]
                   /\ savedContainers' =
                          IF fileType = "MP3" /\ strip
                          THEN writtenTags
                          ELSE containers \cup writtenTags
                   /\ saved' = "true"
                   /\ pc' = "reset"
                   /\ UNCHANGED <<resultVars, injected>>
              ELSE /\ fs' = IF damaged THEN [fs EXCEPT ![tagSaver] = "partial"]
                            ELSE fs
                   /\ saved' = "false"
                   /\ injected' = injected \cup {"save"}
                   /\ afterExport("Failed")
                   /\ pc' = "teardown"
                   /\ UNCHANGED savedContainers
       ELSE /\ UNCHANGED <<fs, saved, injected, savedContainers>>
            /\ afterExport("Failed")
            /\ pc' = "teardown"
    /\ UNCHANGED <<mathVars, importVars, writtenTags, envVars, txVars, tagSaver,
                   modifiedTags, commitVars, cancelCalls>>

\* A reset that leaves the TagSaver alive.
ResetSaver_KeepsOpen ==
    /\ pc = "reset"
    /\ pc' = "commit"
    /\ UNCHANGED <<mathVars, importVars, tagVars, envVars, fs, txVars, saverVars, commitVars,
                   resultVars, injected, cancelCalls>>

\* pTagSaver.reset(): close all file handles before the commit.
ResetSaver ==
    /\ pc = "reset"
    /\ tagSaver' = NullName
    /\ pc' = "commit"
    /\ UNCHANGED <<mathVars, importVars, tagVars, envVars, fs, txVars, modifiedTags, saved, commitVars,
                   resultVars, injected, cancelCalls>>

----------------------------------------------------------------------------
(* SafelyWritableFile::commit() *)

\* "Prevent any further interaction and file access" and return true.
CommitSucceeds ==
    /\ m_origFileName' = NullName
    /\ m_tempFileName' = NullName
    /\ commitResult' = "true"
    /\ pc' = "commit_ret"

\* return false: the file names stay set.
CommitFails ==
    /\ UNCHANGED txVars
    /\ commitResult' = "false"
    /\ pc' = "commit_ret"

\* Entry of commit(): nothing to do without a temporary file; otherwise the
\* compiled branch starts (the non-Windows branch first checks that the
\* temporary file exists).
CommitEnter ==
    /\ pc = "commit"
    /\ IF m_tempFileName = NullName
       THEN /\ commitResult' = "true"
            /\ pc' = "commit_ret"
            /\ UNCHANGED <<oldFile, i>>
       ELSE IF platform = "windows"
       THEN /\ i' = 0
            /\ pc' = "w_replace"
            /\ UNCHANGED <<oldFile, commitResult>>
       ELSE IF ~exists(m_tempFileName)
       THEN /\ commitResult' = "false"
            /\ pc' = "commit_ret"
            /\ UNCHANGED <<oldFile, i>>
       ELSE /\ oldFile' = m_origFileName
            /\ pc' = "c_backup"
            /\ UNCHANGED <<i, commitResult>>
    /\ UNCHANGED <<mathVars, importVars, tagVars, envVars, fs, txVars, saverVars, attempts, resultVars,
                   injected, cancelCalls>>

\* A first step that deletes the original instead of keeping it as backup.
RenameOrigToBackup_Removes ==
    /\ pc = "c_backup"
    /\ fs' = Removed(oldFile)
    /\ oldFile' = BackupPath
    /\ pc' = "c_replace"
    /\ UNCHANGED <<mathVars, importVars, tagVars, envVars, txVars, saverVars, i, attempts, commitResult,
                   resultVars, injected, cancelCalls>>

\* oldFile.rename(backupFileName), if the original exists.
RenameOrigToBackup ==
    /\ pc = "c_backup"
    /\ IF exists(oldFile)
       THEN \E ok \in BOOLEAN :
              IF ok /\ CanRename(oldFile, BackupPath)
              THEN /\ fs' = Renamed(oldFile, BackupPath)
                   /\ oldFile' = BackupPath
                   /\ pc' = "c_replace"
                   /\ UNCHANGED <<txVars, commitResult, injected>>
              ELSE /\ injected' = injected \cup {"renameBackup"}
                   /\ CommitFails
                   /\ UNCHANGED <<fs, oldFile>>
       ELSE /\ pc' = "c_replace"
            /\ UNCHANGED <<fs, oldFile, txVars, commitResult, injected>>
    /\ UNCHANGED <<mathVars, importVars, tagVars, envVars, saverVars, i, attempts, resultVars, cancelCalls>>

\* newFile.rename(m_origFileName); on failure the restoration follows if the
\* backup exists, otherwise the code falls through to the cleanup.
RenameTempToOrig ==
    /\ pc = "c_replace"
    /\ \E ok \in BOOLEAN :
          IF ok /\ CanRename(m_tempFileName, m_origFileName)
          THEN /\ fs' = Renamed(m_tempFileName, m_origFileName)
               /\ pc' = "c_cleanup"
               /\ UNCHANGED injected
          ELSE /\ injected' = injected \cup {"renameTemp"}
               /\ pc' = IF exists(oldFile) THEN "c_restore" ELSE "c_cleanup"
               /\ UNCHANGED fs
    /\ UNCHANGED <<mathVars, importVars, tagVars, envVars, txVars, saverVars, commitVars, resultVars,
                   cancelCalls>>

\* "Try to restore the original file": oldFile.rename(m_origFileName);
\* commit() returns false whether or not that works.
RestoreBackup ==
    /\ pc = "c_restore"
    /\ \E ok \in BOOLEAN :
          IF ok /\ CanRename(oldFile, m_origFileName)
          THEN /\ fs' = Renamed(oldFile, m_origFileName)
               /\ oldFile' = m_origFileName
               /\ UNCHANGED injected
          ELSE /\ injected' = injected \cup {"restore"}
               /\ UNCHANGED <<fs, oldFile>>
    /\ CommitFails
    /\ UNCHANGED <<mathVars, importVars, tagVars, envVars, saverVars, i, attempts, resultVars, cancelCalls>>

\* oldFile.remove() if it exists, then the end of commit().
RemoveBackup ==
    /\ pc = "c_cleanup"
    /\ IF exists(oldFile)
       THEN \E ok \in BOOLEAN :
              IF ok
              THEN /\ fs' = Removed(oldFile)
                   /\ CommitSucceeds
                   /\ UNCHANGED injected
              ELSE /\ injected' = injected \cup {"removeBackup"}
                   /\ CommitFails
                   /\ UNCHANGED fs
       ELSE /\ CommitSucceeds
            /\ UNCHANGED <<fs, injected>>
    /\ UNCHANGED <<mathVars, importVars, tagVars, envVars, saverVars, oldFile, i, attempts, resultVars,
                   cancelCalls>>

\* A loop condition that allows one attempt too many.
RetryLoopContinues_OneMore(k) == k <= kWindowsSharingViolationMaxRetries

\* for (; i < kWindowsSharingViolationMaxRetries; ++i)
RetryLoopContinues(k) == k < kWindowsSharingViolationMaxRetries

\* A give-up test that is off by one.
GaveUp_OffByOne(k) == k >= kWindowsSharingViolationMaxRetries - 1

\* if (i >= kWindowsSharingViolationMaxRetries) after the loop
GaveUp(k) == k >= kWindowsSharingViolationMaxRetries

\* ReplaceFileW moves the original to the backup name (replacing what was
\* there) and the temporary file to the original name.
Replaced ==
    [fs EXCEPT ![BackupPath] = fs[m_origFileName],
               ![m_origFileName] = fs[m_tempFileName],
               ![m_tempFileName] = "none"]

\* A retry loop that also retries after ERROR_ACCESS_DENIED.
ReplaceFile_RetriesAccessDenied ==
    /\ pc = "w_replace"
    /\ RetryLoopContinues(i)
    /\ attempts' = attempts + 1
    /\ \E outcome \in ReplaceOutcomes :
          /\ outcome = "SUCCESS" => exists(m_origFileName) /\ exists(m_tempFileName)
          /\ IF outcome = "SUCCESS"
             THEN /\ fs' = Replaced
                  /\ pc' = "w_cleanup"
                  /\ UNCHANGED <<i, txVars, commitResult, injected>>
             ELSE IF outcome \in {"ERROR_SHARING_VIOLATION",
                                  "ERROR_ACCESS_DENIED"}
             THEN /\ i' = i + 1
                  /\ pc' = IF RetryLoopContinues(i + 1) THEN "w_replace"
                           ELSE "w_cleanup"
                  /\ injected' = injected \cup
                         (IF outcome = "ERROR_SHARING_VIOLATION"
                          THEN {"sharing"} ELSE {"replaceError"})
                  /\ UNCHANGED <<fs, txVars, commitResult>>
             ELSE /\ injected' = injected \cup {"replaceError"}
                  /\ CommitFails
                  /\ UNCHANGED <<fs, i>>
    /\ UNCHANGED <<mathVars, importVars, tagVars, envVars, saverVars, oldFile, resultVars, cancelCalls>>

\* One iteration of the retry loop: a call of ReplaceFileW.  Success leaves
\* the loop, a sharing violation sleeps and continues with ++i, every other
\* error returns false; in all error cases the files keep their names.
ReplaceFile ==
    /\ pc = "w_replace"
    /\ RetryLoopContinues(i)
    /\ attempts' = attempts + 1
    /\ \E outcome \in ReplaceOutcomes :
          /\ outcome = "SUCCESS" => exists(m_origFileName) /\ exists(m_tempFileName)
          /\ IF outcome = "SUCCESS"
             THEN /\ fs' = Replaced
                  /\ pc' = "w_cleanup"
                  /\ UNCHANGED <<i, txVars, commitResult, injected>>
             ELSE IF outcome = "ERROR_SHARING_VIOLATION"
             THEN /\ i' = i + 1
                  /\ pc' = IF RetryLoopContinues(i + 1) THEN "w_replace"
                           ELSE "w_cleanup"
                  /\ injected' = injected \cup {"sharing"}
                  /\ UNCHANGED <<fs, txVars, commitResult>>
             ELSE /\ injected' = injected \cup {"replaceError"}
                  /\ CommitFails
                  /\ UNCHANGED <<fs, i>>
    /\ UNCHANGED <<mathVars, importVars, tagVars, envVars, saverVars, oldFile, resultVars, cancelCalls>>

\* After the loop: remove the backup file if it exists, then give up if the
\* retries were used up, else finish.
WinRemoveBackup ==
    /\ pc = "w_cleanup"
    /\ \E ok \in BOOLEAN :
          IF exists(BackupPath) /\ ~ok
          THEN /\ injected' = injected \cup {"removeBackup"}
               /\ CommitFails
               /\ UNCHANGED fs
          ELSE /\ fs' = Removed(BackupPath)
               /\ UNCHANGED injected
               /\ IF GaveUp(i) THEN CommitFails ELSE CommitSucceeds
    /\ UNCHANGED <<mathVars, importVars, tagVars, envVars, saverVars, oldFile, i, attempts, resultVars,
                   cancelCalls>>

----------------------------------------------------------------------------
(* exportTrackMetadata after the commit *)

\* A caller that ignores the return value of commit().
AfterCommit_AlwaysSucceeds ==
    /\ pc = "commit_ret"
    /\ UNCHANGED fs
    /\ afterExport("Succeeded")
    /\ pc' = "teardown"
    /\ UNCHANGED <<mathVars, importVars, tagVars, envVars, txVars, saverVars, commitVars, injected,
                   cancelCalls>>

\* if (safelyWritableFile.commit()) return afterExport(Succeeded);
\* otherwise the call falls through to afterExport(Failed).
AfterCommit ==
    /\ pc = "commit_ret"
    /\ UNCHANGED fs
    /\ IF commitResult = "true"
       THEN afterExport("Succeeded")
       ELSE afterExport("Failed")
    /\ pc' = "teardown"
    /\ UNCHANGED <<mathVars, importVars, tagVars, envVars, txVars, saverVars, commitVars, injected,
                   cancelCalls>>

\* Leaving the function: pTagSaver is destroyed first, then
\* ~SafelyWritableFile() calls cancel().
Teardown ==
    /\ pc = "teardown"
    /\ tagSaver' = NullName
    /\ \E removeOk \in BOOLEAN : cancel(removeOk)
    /\ cancelCalls' = cancelCalls + 1
    /\ pc' = "done"
    /\ UNCHANGED <<mathVars, importVars, tagVars, envVars, modifiedTags, saved, commitVars, resultVars>>

\* An explicit cancel() on the live object, before it is destroyed.
ExplicitCancel ==
    /\ pc = "teardown"
    /\ cancelCalls < MaxCancelCalls
    /\ \E removeOk \in BOOLEAN : cancel(removeOk)
    /\ cancelCalls' = cancelCalls + 1
    /\ UNCHANGED <<mathVars, importVars, tagVars, envVars, pc, saverVars, commitVars, resultVars>>

----------------------------------------------------------------------------
(* importTrackMetadataAndCoverImage *)

\* The kinds of tag containers a file can hold: ID3v2, APE, ID3v1, MP4
\* atoms, VorbisComment, RIFF Info and AIFF text chunks.
ContainerKinds == {"ID3v2", "APE", "ID3v1", "MP4", "Xiph", "RIFFInfo",
                   "TextChunks"}

\* The containers from which the import also reads a cover image.
CoverContainers == {"ID3v2", "APE", "MP4", "Xiph"}

\* An MP3 import that asks for the APE tag first.
ImportMP3_ApeFirst(c) ==
    IF "APE" \in c THEN "APE"
    ELSE IF "ID3v2" \in c THEN "ID3v2"
    ELSE IF "ID3v1" \in c THEN "ID3v1"
    ELSE "none"

\* An MP3 import that reads file.tag() without asking for an ID3v1 tag.
ImportMP3_AlwaysTag(c) ==
    IF "ID3v2" \in c THEN "ID3v2"
    ELSE IF "APE" \in c THEN "APE"
    ELSE "ID3v1"

\* case MP3: ID3v2 tag takes precedence over APE tag, then ID3v1; file.tag()
\* is a valid pointer whenever it is asked for.
ImportMP3(c) ==
    IF "ID3v2" \in c THEN "ID3v2"
    ELSE IF "APE" \in c THEN "APE"
    ELSE IF "ID3v1" \in c THEN "ID3v1"
    ELSE "none"

\* case MP4
ImportMP4(c) == IF "MP4" \in c THEN "MP4" ELSE "none"

\* A FLAC import that asks for the ID3v2 tag first.
ImportFLAC_Id3v2First(c) ==
    IF "ID3v2" \in c THEN "ID3v2"
    ELSE IF "Xiph" \in c THEN "Xiph"
    ELSE "none"

\* case FLAC: VorbisComment tag takes precedence over ID3v2 tag
ImportFLAC(c) ==
    IF "Xiph" \in c THEN "Xiph"
    ELSE IF "ID3v2" \in c THEN "ID3v2"
    ELSE "none"

\* case OGG: file.tag() is the VorbisComment or null
ImportOGG(c) == IF "Xiph" \in c THEN "Xiph" ELSE "none"

\* case OPUS: file.tag() is the VorbisComment or null
ImportOPUS(c) == IF "Xiph" \in c THEN "Xiph" ELSE "none"

\* case WV
ImportWV(c) == IF "APE" \in c THEN "APE" ELSE "none"

\* case WAV
ImportWAV(c) ==
    IF "ID3v2" \in c THEN "ID3v2"
    ELSE IF "RIFFInfo" \in c THEN "RIFFInfo"
    ELSE "none"

\* case AIFF: importTrackMetadataFromTextChunks has nothing to do (returns
\* false) when pTrackMetadata is null.
ImportAIFF(c, metadataSink) ==
    IF "ID3v2" \in c THEN "ID3v2"
    ELSE IF metadataSink /\ "TextChunks" \in c THEN "TextChunks"
    ELSE "none"

\* The switch over m_fileType: the container that is read.
SelectContainer(ft, c, metadataSink) ==
    CASE ft = "MP3" -> ImportMP3(c)
      [] ft = "MP4" -> ImportMP4(c)
      [] ft = "FLAC" -> ImportFLAC(c)
      [] ft = "OGG" -> ImportOGG(c)
      [] ft = "OPUS" -> ImportOPUS(c)
      [] ft = "WV" -> ImportWV(c)
      [] ft = "WAV" -> ImportWAV(c)
      [] ft = "AIFF" -> ImportAIFF(c, metadataSink)
      [] OTHER -> "none"

\* An import that goes on to the tags when the audio properties cannot be
\* read.
ImportOutcome_IgnoresProps(ft, c, metadataSink, coverSink, propsOk) ==
    IF ~(metadataSink \/ coverSink)
    THEN [result |-> "Unavailable", from |-> "none"]
    ELSE IF ft \notin FileTypes
    THEN [result |-> "Failed", from |-> "none"]
    ELSE LET sel == SelectContainer(ft, c, metadataSink)
         IN  IF sel # "none"
             THEN [result |-> "Succeeded", from |-> sel]
             ELSE [result |-> "Unavailable", from |-> "none"]

\* An import whose default case leaves the switch like the others.
ImportOutcome_DefaultBreaks(ft, c, metadataSink, coverSink, propsOk) ==
    IF ~(metadataSink \/ coverSink)
    THEN [result |-> "Unavailable", from |-> "none"]
    ELSE IF ft \notin FileTypes \/ ~propsOk
    THEN [result |-> "Unavailable", from |-> "none"]
    ELSE LET sel == SelectContainer(ft, c, metadataSink)
         IN  IF sel # "none"
             THEN [result |-> "Succeeded", from |-> sel]
             ELSE [result |-> "Unavailable", from |-> "none"]

\* An import that does not look at its sinks before it opens the file.
ImportOutcome_NullSinksProceed(ft, c, metadataSink, coverSink, propsOk) ==
    IF ft \notin FileTypes
    THEN [result |-> "Failed", from |-> "none"]
    ELSE IF ~propsOk
    THEN [result |-> "Unavailable", from |-> "none"]
    ELSE LET sel == SelectContainer(ft, c, metadataSink)
         IN  IF sel # "none"
             THEN [result |-> "Succeeded", from |-> sel]
             ELSE [result |-> "Unavailable", from |-> "none"]

\* The result of the import and the container it was read from: nothing to
\* import without a sink; Failed in the default case of the switch; a break
\* out of the switch (audio properties unreadable, or no container found)
\* ends in Unavailable.
ImportOutcome(ft, c, metadataSink, coverSink, propsOk) ==
    IF ~(metadataSink \/ coverSink)
    THEN [result |-> "Unavailable", from |-> "none"]
    ELSE IF ft \notin FileTypes
    THEN [result |-> "Failed", from |-> "none"]
    ELSE IF ~propsOk
    THEN [result |-> "Unavailable", from |-> "none"]
    ELSE LET sel == SelectContainer(ft, c, metadataSink)
         IN  IF sel # "none"
             THEN [result |-> "Succeeded", from |-> sel]
             ELSE [result |-> "Unavailable", from |-> "none"]

\* importCoverImageFromTag(pCoverImage, tag): true when a cover image was
\* taken from the tag.
importCoverImageFromTag(coverSink, container) ==
    coverSink /\ container \in CoverContainers /\ container \in tagCovers

\* MetadataSourceTagLib::afterImport(importResult)
afterImport(result) ==
    /\ importResult' = result
    /\ syncValid' = exists(OrigPath)

\* The tag containers of the file stored under m_fileName: those of the
\* file as it was, or those of the file the TagSaver saved.
FileTags == IF fs[OrigPath] = "new" THEN savedContainers ELSE containers

\* readAudioPropertiesFromFile: the TagLib file must be valid, which a
\* missing, truncated or foreign file is not.
PropsReadable == audioPropsOk /\ fs[OrigPath] \in {"old", "new"}

\* An import that reads the FLAC picture list whenever a cover is requested
\* and none was found, whether or not a tag was read.
Import_PictureListWithoutTag ==
    /\ pc = "import"
    /\ LET out == ImportOutcome(fileType, FileTags, wantMetadata, wantCover,
                                PropsReadable)
           coverImageImported == importCoverImageFromTag(wantCover, out.from)
           fallback == /\ fileType = "FLAC"
                       /\ wantCover
                       /\ audioPropsOk
                       /\ ~coverImageImported
       IN  /\ importedFrom' = out.from
           /\ pictureListRead' = fallback
           /\ coverFrom' = IF coverImageImported THEN out.from
                           ELSE IF fallback /\ pictureList THEN "PictureList"
                           ELSE "none"
           /\ afterImport(out.result)
    /\ pc' = "imported"
    /\ UNCHANGED <<envVars, fs, txVars, saverVars, commitVars, exportResult,
                   injected, cancelCalls, containers, tagCovers, pictureList,
                   audioPropsOk, wantMetadata, wantCover, tagVars, mathVars>>

\* One call of importTrackMetadataAndCoverImage.  The cover image comes from
\* the container that was read; for FLAC the picture list is the fallback
\* when a cover is requested, a tag was read and it held no cover.
ImportCall ==
    /\ LET out == ImportOutcome(fileType, FileTags, wantMetadata, wantCover,
                                PropsReadable)
           coverImageImported == importCoverImageFromTag(wantCover, out.from)
           fallback == /\ fileType = "FLAC"
                       /\ wantCover
                       /\ out.result = "Succeeded"
                       /\ ~coverImageImported
       IN  /\ importedFrom' = out.from
           /\ pictureListRead' = fallback
           /\ coverFrom' = IF coverImageImported THEN out.from
                           ELSE IF fallback /\ pictureList THEN "PictureList"
                           ELSE "none"
           /\ afterImport(out.result)
    /\ pc' = "imported"
    /\ UNCHANGED <<envVars, fs, txVars, saverVars, commitVars, exportResult,
                   injected, cancelCalls, containers, tagCovers, pictureList,
                   audioPropsOk, wantMetadata, wantCover, tagVars, mathVars>>

\* An import call on a file that no export has touched.
Import ==
    /\ pc = "import"
    /\ ImportCall

\* An import call on the file after exportTrackMetadata has returned.
ReImport ==
    /\ pc = "done"
    /\ ImportCall

\* An import call on an existing file of any type with any set of tag
\* containers, with or without readable audio properties.
InitImport ==
    /\ platform \in Platforms
    /\ fileType \in FileTypes \cup {UnknownType}
    /\ useTemporaryFile = kExportTrackMetadataIntoTemporaryFile
    /\ writable = TRUE
    /\ fs = [n \in FileNames |-> IF n = OrigPath THEN "old" ELSE "none"]
    /\ m_origFileName = NullName
    /\ m_tempFileName = NullName
    /\ pc = "import"
    /\ oldFile = NullName
    /\ i = 0
    /\ attempts = 0
    /\ tagSaver = NullName
    /\ modifiedTags = FALSE
    /\ saved = "none"
    /\ commitResult = "none"
    /\ exportResult = "none"
    /\ syncValid = FALSE
    /\ injected = {}
    /\ cancelCalls = 0
    /\ containers \in SUBSET ContainerKinds
    /\ tagCovers \in SUBSET (containers \cap CoverContainers)
    /\ pictureList \in (IF fileType = "FLAC" THEN BOOLEAN ELSE {FALSE})
    /\ audioPropsOk \in BOOLEAN
    /\ wantMetadata \in BOOLEAN
    /\ wantCover \in BOOLEAN
    /\ importResult = "none"
    /\ importedFrom = "none"
    /\ coverFrom = "none"
    /\ pictureListRead = FALSE
    /\ writtenTags = {}
    /\ savedContainers = {}
    /\ NoRoundUp

NextImport == Import

SpecImport == InitImport /\ [][NextImport]_vars

----------------------------------------------------------------------------
(* util/math.h: roundUpToPowerOf2 *)

\* The values of unsigned int; arithmetic on them is modulo UIntModulus.
UIntModulus == 2 ^ UIntBits

UInt == 0 .. (UIntModulus - 1)

\* The powers of two that unsigned int can represent.
PowersOf2 == {2 ^ k : k \in 0 .. (UIntBits - 1)}

\* std::bit_ceil(x) where the standard defines it: the smallest power of two
\* that is not smaller than x.
bit_ceil(x) == CHOOSE q \in PowersOf2 :
                   /\ q >= x
                   /\ \A r \in PowersOf2 : r >= x => q <= r

\* What the mutable state outside roundUpToPowerOf2 is left as.
RoundUpFrame ==
    UNCHANGED <<envVars, fs, txVars, saverVars, commitVars, resultVars,
                injected, cancelCalls, importVars, tagVars, stdBitCeil, v>>

\* unsigned int power = 1; in a build without std::bit_ceil
RoundUpEnter ==
    /\ pc = "r_begin"
    /\ ~stdBitCeil
    /\ power' = 1
    /\ pc' = "r_loop"
    /\ RoundUpFrame

\* One iteration of while (power < v && power > 0): power *= 2, which
\* wraps around at the width of unsigned int.
RoundUpLoop ==
    /\ pc = "r_loop"
    /\ power < v /\ power > 0
    /\ power' = (power * 2) % UIntModulus
    /\ UNCHANGED pc
    /\ RoundUpFrame

\* The loop condition is false: return power.
RoundUpReturn ==
    /\ pc = "r_loop"
    /\ ~(power < v /\ power > 0)
    /\ pc' = "r_done"
    /\ UNCHANGED power
    /\ RoundUpFrame

\* return std::bit_ceil(v); in a build that has it.  Its behaviour is
\* undefined when the result is not representable: the call then yields any
\* value or does not return at all.
RoundUpBitCeil ==
    /\ pc = "r_begin"
    /\ stdBitCeil
    /\ IF \E q \in PowersOf2 : q >= v
       THEN /\ power' = bit_ceil(v)
            /\ pc' = "r_done"
       ELSE \/ /\ power' \in UInt
               /\ pc' = "r_done"
            \/ /\ pc' = "r_trap"
               /\ UNCHANGED power
    /\ RoundUpFrame

\* A call of roundUpToPowerOf2 with any argument, in either build.
InitRoundUp ==
    /\ platform \in Platforms
    /\ fileType = UnknownType
    /\ useTemporaryFile = kExportTrackMetadataIntoTemporaryFile
    /\ writable = TRUE
    /\ fs = [n \in FileNames |-> IF n = OrigPath THEN "old" ELSE "none"]
    /\ m_origFileName = NullName
    /\ m_tempFileName = NullName
    /\ pc = "r_begin"
    /\ oldFile = NullName
    /\ i = 0
    /\ attempts = 0
    /\ tagSaver = NullName
    /\ modifiedTags = FALSE
    /\ saved = "none"
    /\ commitResult = "none"
    /\ exportResult = "none"
    /\ syncValid = FALSE
    /\ injected = {}
    /\ cancelCalls = 0
    /\ writtenTags = {}
    /\ savedContainers = {}
    /\ NoImport
    /\ stdBitCeil \in BOOLEAN
    /\ v \in UInt
    /\ power = 0

NextRoundUp ==
    \/ RoundUpEnter
    \/ RoundUpLoop
    \/ RoundUpReturn
    \/ RoundUpBitCeil

SpecRoundUp == InitRoundUp /\ [][NextRoundUp]_vars

----------------------------------------------------------------------------
(* Specifications *)

Next ==
    \/ Begin
    \/ Dispatch
    \/ SaveTags
    \/ ResetSaver
    \/ CommitEnter
    \/ RenameOrigToBackup
    \/ RenameTempToOrig
    \/ RestoreBackup
    \/ RemoveBackup
    \/ ReplaceFile
    \/ WinRemoveBackup
    \/ AfterCommit
    \/ Teardown

\* One call of exportTrackMetadata.
Spec == Init /\ [][Next]_vars

\* The call is synchronous: it keeps running until it returns.
FairSpec == Spec /\ WF_vars(Next)

\* The constructor's useTemporaryFile argument is a configuration option:
\* either value, with a client that may also call cancel() itself.
InitAnyMode ==
    /\ InitCommon
    /\ useTemporaryFile \in BOOLEAN

NextApi == Next \/ ExplicitCancel

\* The same call with a client that also calls cancel() itself.
SpecApi == Init /\ [][NextApi]_vars

SpecAnyMode == InitAnyMode /\ [][NextApi]_vars

\* An export into a writable file of any type with any set of tag
\* containers, followed by an import of metadata from the same file.
InitRoundTrip ==
    /\ platform \in Platforms
    /\ fileType \in FileTypes \cup {UnknownType}
    /\ useTemporaryFile = kExportTrackMetadataIntoTemporaryFile
    /\ writable = TRUE
    /\ fs = [n \in FileNames |-> IF n = OrigPath THEN "old" ELSE "none"]
    /\ m_origFileName = NullName
    /\ m_tempFileName = NullName
    /\ pc = "begin"
    /\ oldFile = NullName
    /\ i = 0
    /\ attempts = 0
    /\ tagSaver = NullName
    /\ modifiedTags = FALSE
    /\ saved = "none"
    /\ commitResult = "none"
    /\ exportResult = "none"
    /\ syncValid = FALSE
    /\ injected = {}
    /\ cancelCalls = 0
    /\ containers \in SUBSET ContainerKinds
    /\ tagCovers = {}
    /\ pictureList = FALSE
    /\ audioPropsOk = TRUE
    /\ wantMetadata = TRUE
    /\ wantCover = FALSE
    /\ importResult = "none"
    /\ importedFrom = "none"
    /\ coverFrom = "none"
    /\ pictureListRead = FALSE
    /\ writtenTags = {}
    /\ savedContainers = {}
    /\ NoRoundUp

NextRoundTrip == Next \/ ReImport

SpecRoundTrip == InitRoundTrip /\ [][NextRoundTrip]_vars

\* Another program removes or moves away the original file after the
\* working copy was made and before commit() looks for it; commit() tests
\* oldFile.exists() for this case.
OriginalVanishes ==
    /\ pc \in {"dispatch", "save", "reset", "commit"}
    /\ m_tempFileName # NullName
    /\ exists(OrigPath)
    /\ fs' = Removed(OrigPath)
    /\ UNCHANGED <<mathVars, importVars, tagVars, envVars, txVars, pc, saverVars,
                   commitVars, resultVars, injected, cancelCalls>>

NextVanish == Next \/ OriginalVanishes

\* The export call while the original file may disappear underneath it.
SpecVanish == Init /\ [][NextVanish]_vars

TypeOK ==
    /\ platform \in Platforms
    /\ fileType \in FileTypes \cup {UnknownType}
    /\ useTemporaryFile \in BOOLEAN
    /\ writable \in BOOLEAN
    /\ fs \in [FileNames -> Contents]
    /\ m_origFileName \in {NullName, OrigPath}
    /\ m_tempFileName \in {NullName, TempPath}
    /\ oldFile \in {NullName, OrigPath, BackupPath}
    /\ i \in 0..kWindowsSharingViolationMaxRetries
    /\ attempts \in 0..kWindowsSharingViolationMaxRetries
    /\ tagSaver \in {NullName, OrigPath, TempPath}
    /\ modifiedTags \in BOOLEAN
    /\ saved \in {"none", "true", "false"}
    /\ commitResult \in {"none", "true", "false"}
    /\ exportResult \in {"none", "Succeeded", "Failed", "Unsupported"}
    /\ syncValid \in BOOLEAN
    /\ containers \in SUBSET ContainerKinds
    /\ tagCovers \in SUBSET CoverContainers
    /\ pictureList \in BOOLEAN
    /\ audioPropsOk \in BOOLEAN
    /\ wantMetadata \in BOOLEAN
    /\ wantCover \in BOOLEAN
    /\ importResult \in {"none", "Succeeded", "Unavailable", "Failed"}
    /\ importedFrom \in ContainerKinds \cup {"none"}
    /\ coverFrom \in ContainerKinds \cup {"none", "PictureList"}
    /\ pictureListRead \in BOOLEAN
    /\ writtenTags \in SUBSET ContainerKinds
    /\ savedContainers \in SUBSET ContainerKinds
    /\ stdBitCeil \in BOOLEAN
    /\ v \in UInt
    /\ power \in UInt

----------------------------------------------------------------------------
(* Properties *)

\* Positions inside commit(), before or between its filesystem steps.
InCommit == pc \in {"c_backup", "c_replace", "c_restore", "c_cleanup",
                    "w_replace", "w_cleanup"}

\* Positions at which commit() has returned.
AfterCommitReturned == pc \in {"commit_ret", "teardown", "done"}

\* The constructor left the transaction not ready.
BeginFailed == injected \cap {"notWritable", "copy", "size"} # {}

Complete(name) == fs[name] \in {"old", "new"}

C2_FailureLeavesOriginal ==
    ((BeginFailed \/ commitResult = "false") /\ "restore" \notin injected)
        => fs[OrigPath] = "old"

\* The two arrangements C3 allows at the end of a call.
FullyCommitted ==
    /\ fs[OrigPath] = "new"
    /\ fs[TempPath] = "none"
    /\ fs[BackupPath] = "none"

FullyCancelled ==
    /\ fs[OrigPath] = "old"
    /\ fs[TempPath] = "none"

C4_OriginalUntouchedBeforeSwap ==
    useTemporaryFile =>
        /\ tagSaver \in {NullName, TempPath}
        /\ (commitResult = "none" /\
            pc \notin {"c_replace", "c_restore", "c_cleanup", "w_cleanup"})
               => fs[OrigPath] = "old"

C4_Witness ==
    /\ useTemporaryFile
    /\ tagSaver = TempPath
    /\ saved = "false"
    /\ fs[TempPath] = "partial"
    /\ fs[OrigPath] = "old"

\* C5: commit() runs only after saveModifiedTags() returned true and the
\* TagSaver was destroyed; no state inside commit() has a TagSaver open.
C5_CommitAfterSaverClosed ==
    (pc = "commit" \/ InCommit) => (tagSaver = NullName /\ saved = "true")

C5_Witness ==
    /\ pc = "c_replace"
    /\ tagSaver = NullName
    /\ saved = "true"

\* C6 as stated: if the rename of the working copy onto the original name
\* and the restoration of the backup both fail, commit() reports failure and
\* after the call has ended the old content is under the backup name and
\* the new content under the working-copy name.
C6_BothFilesSurvive ==
    (pc = "done" /\ {"renameTemp", "restore"} \subseteq injected)
        => /\ commitResult = "false"
           /\ fs[BackupPath] = "old"
           /\ fs[TempPath] = "new"

\* C7: on the retrying platform commit() makes at most
\* kWindowsSharingViolationMaxRetries replace attempts; when all of them
\* fail with a sharing violation it returns false with the original
\* unchanged and teardown removes the working copy (if that remove works);
\* and the call always ends.
C7_BoundedRetries ==
    /\ [](attempts <= kWindowsSharingViolationMaxRetries)
    /\ []((platform = "windows" /\ AfterCommitReturned /\
           i = kWindowsSharingViolationMaxRetries)
            => /\ commitResult = "false"
               /\ attempts = kWindowsSharingViolationMaxRetries
               /\ fs[OrigPath] = "old"
               /\ (pc = "done" /\ "removeTemp" \notin injected)
                     => fs[TempPath] = "none")
    /\ <>(pc = "done")

C7_Witness ==
    /\ platform = "windows"
    /\ pc = "done"
    /\ i = kWindowsSharingViolationMaxRetries
    /\ commitResult = "false"
    /\ fs[OrigPath] = "old"
    /\ fs[TempPath] = "none"

\* C8: on the retrying platform, when the replace succeeds on attempt k
\* (k <= 5) after k-1 sharing violations and nothing else fails, commit()
\* returns true, the backup is removed and the export result is Succeeded.
C8_RetryThenSuccess ==
    (platform = "windows" /\ AfterCommitReturned /\ fs[OrigPath] = "new" /\
     "removeBackup" \notin injected)
        => /\ commitResult = "true"
           /\ attempts \in 1..kWindowsSharingViolationMaxRetries
           /\ fs[BackupPath] = "none"
           /\ pc # "commit_ret" => exportResult = "Succeeded"

C8_Witness ==
    /\ platform = "windows"
    /\ attempts = kWindowsSharingViolationMaxRetries
    /\ "sharing" \in injected
    /\ exportResult = "Succeeded"
    /\ fs[OrigPath] = "new"

\* C9: after a first cancel(), or after a commit() that returned true, no
\* later step (a further cancel() or the destructor) touches the
\* filesystem or the fields of the transaction.
C9_TerminalStatesInert ==
    [][(cancelCalls > 0 \/ commitResult = "true")
         => (fs' = fs /\ m_origFileName' = m_origFileName /\
             m_tempFileName' = m_tempFileName)]_vars

C9_Witness ==
    /\ cancelCalls >= 2
    /\ commitResult = "false"
    /\ "removeTemp" \in injected
    /\ fs[TempPath] # "none"

\* C10: if the remove of the backup at the end of commit() fails, the
\* original name holds a complete file (old or new content) after commit()
\* has returned and after the teardown.
C10_OriginalCompleteAfterFailedRemove ==
    ("removeBackup" \in injected /\ AfterCommitReturned)
        => Complete(OrigPath)

C10_Witness ==
    /\ "removeBackup" \in injected
    /\ pc = "done"
    /\ fs[OrigPath] = "new"
    /\ fs[BackupPath] = "old"

\* C11: exporting into a file that is not writable reports Failed whatever
\* the file type, leaves the original as it was, never creates a working
\* copy and never constructs a TagSaver.
C11_NotWritableFails ==
    ~writable =>
        /\ pc \in {"begin", "teardown", "done"}
        /\ fs[OrigPath] = "old"
        /\ fs[TempPath] \in {"none", "foreign"}
        /\ fs[BackupPath] \in {"none", "foreign"}
        /\ tagSaver = NullName
        /\ m_tempFileName = NullName
        /\ pc # "begin" => exportResult = "Failed"

C11_Witness ==
    /\ ~writable
    /\ fileType = UnknownType
    /\ pc = "done"
    /\ exportResult = "Failed"
    /\ fs[TempPath] = "none"

\* C12: when the copy to the working path fails or the copy has another
\* size than the original, the transaction is not ready and, the cleanup
\* remove working, no copy is left at the working path when the
\* constructor has returned.
C12_FailedCopyNotReady ==
    (injected \cap {"copy", "size"} # {}) =>
        /\ ~isReady
        /\ pc \in {"teardown", "done"}
        /\ exportResult = "Failed"
        /\ "removePartial" \notin injected
              => fs[TempPath] \in {"none", "foreign"}

C12_Witness ==
    /\ "size" \in injected
    /\ "removePartial" \notin injected
    /\ ~isReady
    /\ fs[TempPath] = "none"
    /\ pc = "done"

\* C13: without a working copy fileName() is the original path, commit()
\* returns true, and commit(), cancel() and the destructor leave the
\* filesystem alone; the original is never renamed or removed.
C13_DirectModeNoFilesystemAction ==
    [][~useTemporaryFile =>
          /\ m_tempFileName' = NullName
          /\ (m_origFileName' # NullName => fileName' = OrigPath)
          /\ commitResult' \in {"none", "true"}
          /\ fs'[OrigPath] # "none"
          /\ fs'[TempPath] = fs[TempPath]
          /\ fs'[BackupPath] = fs[BackupPath]
          /\ (pc \in {"commit", "commit_ret", "teardown"} => fs' = fs)]_vars

C13_Witness ==
    /\ ~useTemporaryFile
    /\ pc = "done"
    /\ commitResult = "true"
    /\ cancelCalls >= 2
    /\ fs[OrigPath] = "new"

\* C14: for a recognized format the export reports Succeeded exactly when
\* the transaction was prepared, hasModifiedTags() and saveModifiedTags()
\* were true and commit() returned true, and Failed otherwise; without
\* modified tags neither saveModifiedTags() nor commit() is called and the
\* teardown removes the working copy.
C14_SucceededIffAllStepsSucceeded ==
    (fileType \in FileTypes /\ pc \in {"teardown", "done"}) =>
        /\ exportResult = IF /\ ~BeginFailed
                             /\ modifiedTags
                             /\ saved = "true"
                             /\ commitResult = "true"
                          THEN "Succeeded" ELSE "Failed"
        /\ (~BeginFailed /\ ~modifiedTags) =>
              /\ saved = "none"
              /\ commitResult = "none"
              /\ attempts = 0
              /\ fs[OrigPath] = "old"
              /\ (pc = "done" /\ "removeTemp" \notin injected)
                    => fs[TempPath] = "none"

C14_Witness ==
    /\ fileType \in FileTypes
    /\ pc = "done"
    /\ ~BeginFailed
    /\ ~modifiedTags
    /\ exportResult = "Failed"
    /\ fs[TempPath] = "none"

\* C15 as stated: an export into a file of unknown type reports Unsupported
\* without a transaction: whatever the writability, and without ever
\* creating a working copy or changing the filesystem.
C15_UnknownTypeWithoutTransaction ==
    fileType = UnknownType =>
        /\ m_tempFileName = NullName
        /\ fs[TempPath] \in {"none", "foreign"}
        /\ pc \in {"teardown", "done"} => exportResult = "Unsupported"

\* C15 amended: an export into a file of unknown type first prepares the
\* transaction; it reports Failed when that fails (not writable, copy
\* failed) and Unsupported otherwise, constructs no TagSaver, never changes
\* the original, and the teardown removes the working copy again.
C15_UnknownTypeAfterTransaction ==
    fileType = UnknownType =>
        /\ pc \in {"begin", "dispatch", "teardown", "done"}
        /\ tagSaver = NullName
        /\ fs[OrigPath] = "old"
        /\ pc \in {"teardown", "done"} =>
              exportResult = IF BeginFailed THEN "Failed" ELSE "Unsupported"
        /\ (pc = "done" /\ ~BeginFailed /\ "removeTemp" \notin injected)
              => fs[TempPath] = "none"

C15_Witness ==
    /\ fileType = UnknownType
    /\ pc = "done"
    /\ ~BeginFailed
    /\ exportResult = "Unsupported"
    /\ fs[TempPath] = "none"


----------------------------------------------------------------------------
(* Properties of the import *)

\* The import has returned.
Imported == pc = "imported"

\* At least one of pTrackMetadata and pCoverImage is non-null.
HasSink == wantMetadata \/ wantCover

\* The documented probe order of each recognized format.
ProbeOrder(ft) ==
    CASE ft = "MP3" -> <<"ID3v2", "APE", "ID3v1">>
      [] ft = "MP4" -> <<"MP4">>
      [] ft = "FLAC" -> <<"Xiph", "ID3v2">>
      [] ft = "OGG" -> <<"Xiph">>
      [] ft = "OPUS" -> <<"Xiph">>
      [] ft = "WV" -> <<"APE">>
      [] ft = "WAV" -> <<"ID3v2", "RIFFInfo">>
      [] ft = "AIFF" -> <<"ID3v2", "TextChunks">>
      [] OTHER -> <<>>

Probed(ft) == {ProbeOrder(ft)[k] : k \in DOMAIN ProbeOrder(ft)}

\* The first container of the order that is present in c, or "none".
FirstPresent(order, c) ==
    LET hits == {k \in DOMAIN order : order[k] \in c}
    IN  IF hits = {} THEN "none"
        ELSE order[CHOOSE k \in hits : \A m \in hits : k <= m]

\* C16: an MP3 import with readable audio properties reads exactly one
\* container, the first present of ID3v2, APE, ID3v1; with an ID3v2 tag
\* present next to an APE tag the ID3v2 values are the ones returned, and
\* the cover image never comes from another container.
C16_Mp3ReadsFirstPresent ==
    (Imported /\ fileType = "MP3" /\ audioPropsOk /\ HasSink) =>
        /\ importedFrom = FirstPresent(<<"ID3v2", "APE", "ID3v1">>, containers)
        /\ ("ID3v2" \in containers => importedFrom = "ID3v2")
        /\ coverFrom \in {"none", importedFrom}
        /\ (importResult = "Succeeded") = (importedFrom # "none")

C16_Witness ==
    /\ Imported
    /\ fileType = "MP3"
    /\ {"ID3v2", "APE"} \subseteq containers
    /\ "APE" \in tagCovers
    /\ wantCover
    /\ importedFrom = "ID3v2"
    /\ importResult = "Succeeded"

C18_NoContainerUnavailable ==
    (Imported /\ fileType \in FileTypes
              /\ containers \cap Probed(fileType) = {}) =>
        importResult = "Unavailable"

C18_Witness ==
    /\ Imported
    /\ fileType = "MP3"
    /\ containers \cap Probed(fileType) = {}
    /\ audioPropsOk
    /\ HasSink
    /\ importResult = "Unavailable"

C21_NullSinksUnavailable ==
    (Imported /\ ~wantMetadata /\ ~wantCover) =>
        /\ importResult = "Unavailable"
        /\ importedFrom = "none"
        /\ coverFrom = "none"
        /\ ~pictureListRead

C21_Witness ==
    /\ Imported
    /\ ~wantMetadata
    /\ ~wantCover
    /\ fileType = "MP3"
    /\ "ID3v2" \in containers
    /\ audioPropsOk
    /\ importResult = "Unavailable"

\* C22: a FLAC import consults the picture list exactly when a cover image
\* is requested, a tag container was read and that container held no cover
\* image; never when the outcome is Unavailable, never when the container
\* supplied the cover, and never for another format.  When it is consulted
\* the cover sink receives the picture-list result.
C22_PictureListOnlyAsFallback ==
    Imported =>
        /\ pictureListRead =
               (/\ fileType = "FLAC"
                /\ wantCover
                /\ importResult = "Succeeded"
                /\ importedFrom \notin tagCovers)
        /\ (importResult # "Succeeded" => ~pictureListRead)
        /\ (coverFrom \in ContainerKinds => ~pictureListRead)
        /\ (pictureListRead =>
               coverFrom = (IF pictureList THEN "PictureList" ELSE "none"))
        /\ (coverFrom = "PictureList" => pictureListRead)

C22_Witness ==
    /\ Imported
    /\ fileType = "FLAC"
    /\ wantCover
    /\ importedFrom = "Xiph"
    /\ "Xiph" \notin tagCovers
    /\ pictureList
    /\ pictureListRead
    /\ coverFrom = "PictureList"


----------------------------------------------------------------------------
(* Properties of the TagSaver variants *)

\* saveModifiedTags() has written the exported tags into the file.
TagsSaved == saved = "true"

\* The containers that the export added to the file.
CreatedTags == writtenTags \ containers

\* C23 as stated: an MP3 export updates an existing ID3v2 tag, updates the
\* ID3v1 tag exactly when it already exists, and creates and writes an ID3v2
\* tag whenever none exists.
C23_Mp3UpdatesId3v1CreatesId3v2 ==
    (TagsSaved /\ fileType = "MP3") =>
        /\ ("ID3v2" \in containers => "ID3v2" \in writtenTags)
        /\ ("ID3v1" \in writtenTags) = ("ID3v1" \in containers)
        /\ ("ID3v2" \notin containers => "ID3v2" \in writtenTags)

\* C23 amended: an MP3 export updates an existing ID3v2 tag and an existing
\* APE tag; when no ID3v2 tag exists one is created and written exactly when
\* no APE tag exists either; an APE tag is never created and an ID3v1 tag is
\* neither updated nor created.
C23_Mp3SaverPolicy ==
    (TagsSaved /\ fileType = "MP3") =>
        /\ ("ID3v2" \in containers => "ID3v2" \in writtenTags)
        /\ ("APE" \in writtenTags) = ("APE" \in containers)
        /\ ("ID3v2" \notin containers =>
               ("ID3v2" \in writtenTags) = ("APE" \notin containers))
        /\ "ID3v1" \notin writtenTags
        /\ writtenTags \subseteq {"ID3v2", "APE"}

C23_Witness ==
    /\ TagsSaved
    /\ fileType = "MP3"
    /\ {"APE", "ID3v1"} \subseteq containers
    /\ "ID3v2" \notin containers
    /\ writtenTags = {"APE"}

\* The native container of the formats that may also carry an ID3v2 tag.
NativeTag(ft) == IF ft = "FLAC" THEN "Xiph" ELSE "RIFFInfo"

\* C24: a FLAC or WAV export with an ID3v2 tag present updates it, and
\* updates the native container (VorbisComment, RIFF Info) only if that is
\* present too; without an ID3v2 tag the native container is created when
\* missing and updated; an ID3v2 tag is never created.
C24_FlacWavSaverPolicy ==
    (TagsSaved /\ fileType \in {"FLAC", "WAV"}) =>
        LET native == NativeTag(fileType)
        IN  /\ "ID3v2" \in containers =>
                  /\ "ID3v2" \in writtenTags
                  /\ (native \in writtenTags) = (native \in containers)
            /\ "ID3v2" \notin containers =>
                  /\ native \in writtenTags
                  /\ "ID3v2" \notin writtenTags
            /\ writtenTags \subseteq {"ID3v2", native}
            /\ writtenTags \subseteq savedContainers

C24_Witness ==
    /\ TagsSaved
    /\ fileType = "FLAC"
    /\ "ID3v2" \in containers
    /\ "Xiph" \notin containers
    /\ writtenTags = {"ID3v2"}
    /\ "Xiph" \notin savedContainers

\* C25: after an export that returned Succeeded, an import of metadata from
\* the same file succeeds and reads a container that the export wrote, the
\* one the probe order selects among the containers of the saved file; an
\* AIFF file is read from its ID3v2 tag, created by the export if missing,
\* not from its text chunks.
C25_RoundTripReadsWrittenContainer ==
    (Imported /\ exportResult = "Succeeded") =>
        /\ importResult = "Succeeded"
        /\ importedFrom \in writtenTags
        /\ importedFrom = FirstPresent(ProbeOrder(fileType), savedContainers)
        /\ (fileType = "AIFF" => importedFrom = "ID3v2")

C25_Witness ==
    /\ Imported
    /\ exportResult = "Succeeded"
    /\ fileType = "AIFF"
    /\ "ID3v2" \notin containers
    /\ "TextChunks" \in containers
    /\ importedFrom = "ID3v2"

\* The designated primary/fallback container of each format.
PrimaryTag(ft) ==
    CASE ft = "MP3" -> "ID3v2"
      [] ft = "AIFF" -> "ID3v2"
      [] ft = "MP4" -> "MP4"
      [] ft = "FLAC" -> "Xiph"
      [] ft = "OGG" -> "Xiph"
      [] ft = "OPUS" -> "Xiph"
      [] ft = "WV" -> "APE"
      [] ft = "WAV" -> "RIFFInfo"
      [] OTHER -> "none"

\* The container whose presence keeps the export from creating the primary
\* one.
PreferredExisting(ft) ==
    CASE ft = "MP3" -> "APE"
      [] ft = "FLAC" -> "ID3v2"
      [] ft = "WAV" -> "ID3v2"
      [] OTHER -> "none"

\* C26 as stated: a successful export creates a container only if it is the
\* format's designated one or the file held none of the format's containers,
\* and the designated container is present after every successful export.
C26_PrimaryAlwaysPresent ==
    (pc = "done" /\ exportResult = "Succeeded") =>
        /\ \A k \in CreatedTags :
               \/ k = PrimaryTag(fileType)
               \/ containers \cap Probed(fileType) = {}
        /\ PrimaryTag(fileType) \in savedContainers

\* C26 amended: a successful export creates no container but the format's
\* designated one, and creates that one only when the file holds no
\* container the saver prefers to it (an APE tag for MP3, an ID3v2 tag for
\* FLAC and WAV); the designated container is therefore present afterwards
\* exactly when it was present before or no preferred container was; every
\* successful export has written at least one container, and all it wrote
\* are in the file.
C26_CreatesOnlyPrimaryUnlessPreferred ==
    (pc = "done" /\ exportResult = "Succeeded") =>
        /\ CreatedTags \subseteq {PrimaryTag(fileType)}
        /\ (PreferredExisting(fileType) \in containers => CreatedTags = {})
        /\ (PrimaryTag(fileType) \in savedContainers) =
               (\/ PrimaryTag(fileType) \in containers
                \/ PreferredExisting(fileType) \notin containers)
        /\ writtenTags # {}
        /\ writtenTags \subseteq savedContainers

C26_Witness ==
    /\ pc = "done"
    /\ exportResult = "Succeeded"
    /\ fileType = "WAV"
    /\ "ID3v2" \in containers
    /\ "RIFFInfo" \notin containers
    /\ "RIFFInfo" \notin savedContainers


----------------------------------------------------------------------------
(* Properties of the export when the original file may disappear *)

\* C27: whenever commit() has returned true for a transaction that used a
\* working copy, the original name holds the new content and no file is
\* left at the working-copy name or the backup name, also when the original
\* file disappeared before the commit.
C27_CommitTrueMeansMoved ==
    (pc = "commit_ret" /\ commitResult = "true" /\ useTemporaryFile) =>
        /\ fs[OrigPath] = "new"
        /\ fs[TempPath] = "none"
        /\ fs[BackupPath] = "none"

\* C28: whenever the export or the import has reported Succeeded, the stat
\* of the file under the original name made for that report found the file
\* (the timestamp is valid).
C28_SucceededHasValidTimestamp ==
    /\ (pc \in {"teardown", "done"} /\ exportResult = "Succeeded") => syncValid
    /\ (Imported /\ importResult = "Succeeded") => syncValid


----------------------------------------------------------------------------
(* Properties of the replace errors and of foreign files *)

\* C29: in the ReplaceFileW loop only a sharing violation is retried: every
\* attempt but the last one ended in a sharing violation, and after any
\* other replace error commit() has returned false at once, with no further
\* attempt; the export fails and the teardown removes the working copy (if
\* its remove succeeds).
C29_OnlySharingViolationRetried ==
    /\ attempts <= i + 1
    /\ (attempts >= 2 => "sharing" \in injected)
    /\ "replaceError" \in injected =>
          /\ platform = "windows"
          /\ pc \in {"commit_ret", "teardown", "done"}
          /\ commitResult = "false"
          /\ attempts = i + 1
          /\ exportResult \in {"none", "Failed"}
          /\ fs[OrigPath] = "old"
          /\ (pc = "done" /\ "removeTemp" \notin injected) =>
                 ~exists(TempPath)

C29_Witness ==
    /\ "replaceError" \in injected
    /\ "sharing" \in injected
    /\ attempts = 3
    /\ pc = "done"
    /\ exportResult = "Failed"
    /\ ~exists(TempPath)


\* C30: a file that some other program left at the working-copy name or at
\* the backup name is never overwritten or removed by any step of the
\* export: no step changes what is stored under a name that holds a foreign
\* file.
C30_ForeignFilesNeverTouched ==
    [][\A n \in {TempPath, BackupPath} :
           fs[n] = "foreign" => fs'[n] = "foreign"]_vars


----------------------------------------------------------------------------
(* Properties of roundUpToPowerOf2 *)

\* roundUpToPowerOf2 has returned; its result is in power.
RoundUpReturned == pc = "r_done"

\* C31: roundUpToPowerOf2(v) returns the smallest representable power of
\* two that is >= v when there is one (1 for v = 0), returns 0 exactly when
\* there is none (v > 2^(w-1)), and never ends without returning a value.
C31_SmallestPowerOrZero ==
    /\ pc # "r_trap"
    /\ RoundUpReturned =>
          /\ (v <= 2 ^ (UIntBits - 1)) =>
                 /\ power \in PowersOf2
                 /\ power >= v
                 /\ \A r \in PowersOf2 : r >= v => power <= r
          /\ (power = 0) = (v > 2 ^ (UIntBits - 1))

====
